---- MODULE Spec2Model ----
(***************************************************************************)
(* Credential issuance and verification of the book-catalogue back end:    *)
(* POST /register, POST /login and PUT /change_password over the Account   *)
(* and Account_Credential tables.  A request is a chain of callbacks; each *)
(* pool.query is issued by one callback, executed by storage in a step of  *)
(* its own, and continued by the .then/.catch callback in a later step, so *)
(* that requests interleave exactly where the event loop lets them.        *)
(***************************************************************************)
EXTENDS Integers, Sequences, FiniteSets, TLC

\* Number of requests the server receives in one run.
NumReq == 2

Requests == 1..NumReq

(***************************************************************************)
(* Request bodies.  A field is the sequence of its characters; a missing   *)
(* field and an empty string are both <<>> (every validator starts with    *)
(* isStringProvided / isNumberProvided, which reject both).                *)
(***************************************************************************)
Digits == {"0", "1", "2", "3", "4", "5", "6", "7", "8", "9"}

\* hasSpecialChar: /[!@#$%^&*(),.?":{}|<>]/
SpecialChars ==
    {"!", "@", "#", "$", "%", "^", "&", "*", "(", ")", ",", ".", "?", "\"",
     ":", "{", "}", "|", "<", ">"}

Chars(s) == {s[i] : i \in 1..Len(s)}

\* validationFunctions.isStringProvided: a non-empty string.
isStringProvided(s) == Len(s) > 0

\* validationFunctions.isNumberProvided: a non-empty, numeric-only string.
isNumberProvided(s) == Len(s) > 0 /\ Chars(s) \subseteq Digits

\* parseInt of a numeric-only string.
DigitValue(c) ==
    CASE c = "0" -> 0 [] c = "1" -> 1 [] c = "2" -> 2 [] c = "3" -> 3
      [] c = "4" -> 4 [] c = "5" -> 5 [] c = "6" -> 6 [] c = "7" -> 7
      [] c = "8" -> 8 [] c = "9" -> 9

RECURSIVE parseInt(_)
parseInt(s) ==
    IF Len(s) = 0 THEN 0
    ELSE 10 * parseInt(SubSeq(s, 1, Len(s) - 1)) + DigitValue(s[Len(s)])

isValidPassword(password) ==
    /\ isStringProvided(password)
    /\ Len(password) > 7
    /\ Chars(password) \cap Digits # {}
    /\ Chars(password) \cap SpecialChars # {}

isValidPhone(phone) ==
    isNumberProvided(phone) /\ Len(phone) >= 10 /\ Len(phone) <= 15

isValidRole(priority) ==
    /\ isNumberProvided(priority)
    /\ parseInt(priority) >= 1
    /\ parseInt(priority) <= 5

isValidEmail(email) == isStringProvided(email) /\ "@" \in Chars(email)

\* Sample field values.
NameA == <<"A">>
UserAb1 == <<"a", "b", "1">>
UserCd2 == <<"c", "d", "2">>
EmailAb1 == <<"a", "b", "1", "@", "x">>
EmailCd2 == <<"c", "d", "2", "@", "x">>
EmailNoAt == <<"a", "b", "1", "x">>
PhoneA == <<"1", "2", "3", "4", "5", "6", "7", "8", "9", "0">>
PhoneB == <<"2", "2", "3", "4", "5", "6", "7", "8", "9", "0">>
PhoneShort == <<"1", "2", "3", "4", "5", "6", "7", "8", "9">>
PhoneAlpha == <<"1", "2", "3", "4", "5", "6", "7", "8", "9", "x">>
PwOne == <<"A", "b", "c", "d", "e", "f", "1", "!">>
PwTwo == <<"A", "b", "c", "d", "e", "f", "2", "?">>
PwShort == <<"A", "b", "c", "d", "1", "!">>
PwNoDigit == <<"A", "b", "c", "d", "e", "f", "g", "!">>
PwNoSpecial == <<"A", "b", "c", "d", "e", "f", "g", "1">>
RoleThree == <<"3">>
RoleSix == <<"6">>
RoleAlpha == <<"x">>

Body(fn, ln, un, em, ph, ro, pw) ==
    [firstname |-> fn, lastname |-> ln, username |-> un, email |-> em,
     phone |-> ph, role |-> ro, password |-> pw]

NoBody == Body(<<>>, <<>>, <<>>, <<>>, <<>>, <<>>, <<>>)

\* Bodies of POST /register that pass every validation middleware.
ValidRegisterBodies ==
    { Body(NameA, NameA, UserAb1, EmailAb1, PhoneA, RoleThree, PwOne),
      Body(NameA, NameA, UserAb1, EmailCd2, PhoneB, RoleThree, PwTwo),
      Body(NameA, NameA, UserCd2, EmailAb1, PhoneB, RoleThree, PwTwo),
      Body(NameA, NameA, UserCd2, EmailCd2, PhoneB, RoleThree, PwOne) }

\* Bodies of POST /register in which one field breaks its rule.
InvalidRegisterBodies ==
    { Body(NameA, NameA, UserAb1, EmailNoAt, PhoneA, RoleThree, PwOne),
      Body(<<>>, NameA, UserAb1, EmailAb1, PhoneA, RoleThree, PwOne),
      Body(NameA, NameA, <<>>, EmailAb1, PhoneA, RoleThree, PwOne),
      Body(NameA, NameA, UserAb1, EmailAb1, PhoneShort, RoleThree, PwOne),
      Body(NameA, NameA, UserAb1, EmailAb1, PhoneAlpha, RoleThree, PwOne),
      Body(NameA, NameA, UserAb1, EmailAb1, PhoneA, RoleThree, PwShort),
      Body(NameA, NameA, UserAb1, EmailAb1, PhoneA, RoleThree, PwNoDigit),
      Body(NameA, NameA, UserAb1, EmailAb1, PhoneA, RoleThree, PwNoSpecial),
      Body(NameA, NameA, UserAb1, EmailAb1, PhoneA, RoleSix, PwOne),
      Body(NameA, NameA, UserAb1, EmailAb1, PhoneA, RoleAlpha, PwOne) }

RegisterBodies == ValidRegisterBodies \cup InvalidRegisterBodies

\* Bodies of POST /login and PUT /change_password: email and password.
AuthBody(em, pw) == Body(<<>>, <<>>, <<>>, em, <<>>, <<>>, pw)

AuthBodies ==
    { AuthBody(EmailAb1, PwOne), AuthBody(EmailAb1, PwTwo),
      AuthBody(EmailCd2, PwTwo), AuthBody(EmailNoAt, PwOne),
      AuthBody(EmailAb1, PwShort) }

(***************************************************************************)
(* Credentialing and token helpers.                                        *)
(***************************************************************************)
\* Values generateSalt(32) may return.
Salts == {"saltA", "saltB"}

\* credentialingFunctions.generateHash: a deterministic digest of
\* (password, salt); distinct inputs give distinct digests.
generateHash(password, salt) == <<password, salt>>

\* process.env.JSON_WEB_TOKEN: <<>> when the variable is not set.
SecretValues == {<<>>, <<"k">>}

\* jwt.sign throws 'secretOrPrivateKey must have a value' on a falsy secret.
jwtSignThrows(secretOrPrivateKey) == Len(secretOrPrivateKey) = 0

jwtSign(payload, secretOrPrivateKey) == payload

(***************************************************************************)
(* State.                                                                  *)
(***************************************************************************)
VARIABLES
    Account,             \* rows of table Account
    Account_Credential,  \* rows of table Account_Credential
    account_id_seq,      \* next value of the SERIAL Account_ID
    secret,              \* key.secret
    req,                 \* per request: body, position, request.id, response
    observed,            \* storage answers decided by an Account row that had
                         \* no Account_Credential row: [by, account_id]
    BOOKS                \* rows of table BOOKS

vars ==
    <<Account, Account_Credential, account_id_seq, secret, req, observed, BOOKS>>

NoResult ==
    [ok |-> TRUE, constraint |-> "", account_id |-> 0, rows |-> {},
     rowCount |-> 0]

NoValues == [account_id |-> 0, salted_hash |-> <<>>, salt |-> ""]

\* A token as a client may present it: what was signed, the secret it was
\* signed with, whether its exp has passed, and whether it parses as a JWT.
NoPayload == [role |-> 0, id |-> 0]

Token(payload, key, expired, wellformed) ==
    [payload |-> payload, key |-> key, expired |-> expired,
     wellformed |-> wellformed]

Tokens ==
    { Token([role |-> 3, id |-> 1], key, expired, TRUE) :
        key \in {<<"k">>, <<"x">>}, expired \in BOOLEAN }
    \cup {Token(NoPayload, <<>>, FALSE, FALSE)}

\* The Authorization header of a request: absent, or a scheme and a token.
Header(scheme, token) == <<[scheme |-> scheme, token |-> token]>>

NoHeader == <<>>

Headers ==
    {NoHeader, Header("Basic", Token(NoPayload, <<>>, FALSE, FALSE))}
    \cup { Header("Bearer", t) : t \in Tokens }

IdleRequest ==
    [kind |-> "none", body |-> NoBody, pc |-> "idle", id |-> 0,
     result |-> NoResult, values |-> NoValues, sent |-> <<>>,
     queries |-> {}, rejected |-> {}, hashed |-> FALSE, logged |-> {},
     errors |-> {}, authorization |-> NoHeader, claims |-> <<>>,
     forwarded |-> 0, handled |-> 0, params |-> <<>>, ratings |-> <<>>]

\* A response body with a message only.
Message(status, message) ==
    [status |-> status, message |-> message, accessToken |-> <<>>,
     id |-> <<>>, user |-> <<>>]

\* An exception is thrown, or a promise rejected, in a callback of the request.
Throw(q, error) == [q EXCEPT !.errors = @ \cup {error}]

\* response.send / response.json: the first call reaches the client, a later
\* one throws ERR_HTTP_HEADERS_SENT and reaches nobody.
Send(q, resp) ==
    IF q.sent = <<>>
    THEN [q EXCEPT !.sent = <<resp>>]
    ELSE Throw(q, "ERR_HTTP_HEADERS_SENT")

\* pool.query(text, values): the query is on its way to storage.
Query(q, text, at) == [q EXCEPT !.queries = @ \cup {text}, !.pc = at]

\* generateHash has been called for this request.
Hashed(q) == [q EXCEPT !.hashed = TRUE]

\* console.error(line).
Log(q, line) == [q EXCEPT !.logged = @ \cup {line}]

\* The promise of pool.query is rejected with this error.
Reject(q, error) ==
    [q EXCEPT !.rejected = @ \cup {error}, !.result = [NoResult EXCEPT !.ok = FALSE]]

\* The error jwt.sign throws on a missing secret.
SecretError == "secretOrPrivateKey must have a value"

Done(q) == [q EXCEPT !.pc = "done"]

\* Requests are received in the order of their numbers.
CanReceive(r) ==
    /\ req[r].pc = "idle"
    /\ r > 1 => req[r - 1].pc # "idle"

\* Another request than r is in the middle of the registration that created
\* account a.
Registering(r, a) ==
    \E o \in Requests \ {r} :
        /\ req[o].kind = "register"
        /\ req[o].pc \notin {"idle", "done"}
        /\ \/ req[o].id = a
           \/ req[o].pc = "account_insert_settled" /\ req[o].result.account_id = a

HasCredential(a) == \E c \in Account_Credential : c.account_id = a

Init ==
    /\ Account = {}
    /\ Account_Credential = {}
    /\ account_id_seq = 1
    /\ secret \in SecretValues
    /\ req = [r \in Requests |-> IdleRequest]
    /\ observed = {}
    /\ BOOKS = {}

(***************************************************************************)
(* POST /register                                                          *)
(***************************************************************************)
\* A chain of validation middlewares without the role check.
RegisterValidationNoRole(body) ==
    IF ~isValidEmail(body.email)
    THEN "Invalid or missing email  - please refer to documentation"
    ELSE IF ~(/\ isStringProvided(body.firstname)
              /\ isStringProvided(body.lastname)
              /\ isStringProvided(body.username))
    THEN "Missing required information"
    ELSE IF ~isValidPhone(body.phone)
    THEN "Invalid or missing phone number  - please refer to documentation"
    ELSE IF ~isValidPassword(body.password)
    THEN "Invalid or missing password  - please refer to documentation"
    ELSE ""

\* The five validation middlewares, in order: the message of the first one
\* that answers 400, or "" when each of them calls next().
RegisterValidation(body) ==
    IF ~isValidEmail(body.email)
    THEN "Invalid or missing email  - please refer to documentation"
    ELSE IF ~(/\ isStringProvided(body.firstname)
              /\ isStringProvided(body.lastname)
              /\ isStringProvided(body.username))
    THEN "Missing required information"
    ELSE IF ~isValidPhone(body.phone)
    THEN "Invalid or missing phone number  - please refer to documentation"
    ELSE IF ~isValidPassword(body.password)
    THEN "Invalid or missing password  - please refer to documentation"
    ELSE IF ~isValidRole(body.role)
    THEN "Invalid or missing role  - please refer to documentation"
    ELSE ""

\* The request runs the validation middlewares and, when all pass, the
\* handler that issues the Account insert.
RegisterReceive(r, body) ==
    /\ CanReceive(r)
    /\ LET q == [req[r] EXCEPT !.kind = "register", !.body = body]
           m == RegisterValidation(body)
       IN req' = [req EXCEPT ![r] =
                    IF m # ""
                    THEN Done(Send(q, Message(400, m)))
                    ELSE Query(q, "INSERT INTO Account", "account_insert")]
    /\ UNCHANGED <<Account, Account_Credential, account_id_seq, secret, BOOKS,
                   observed>>

\* An Account table whose Username column is not UNIQUE.
AccountConstraintEmailOnly(body) ==
    IF \E a \in Account : a.email = body.email
    THEN "account_email_key"
    ELSE IF \E a \in Account : a.phone = body.phone
    THEN "account_phone_key"
    ELSE ""

\* An Account table whose Email column is not UNIQUE.
AccountConstraintNoEmail(body) ==
    IF \E a \in Account : a.username = body.username
    THEN "account_username_key"
    ELSE IF \E a \in Account : a.phone = body.phone
    THEN "account_phone_key"
    ELSE ""

\* The UNIQUE constraint an Account row with these values violates, checked
\* in the order the constraints are declared; "" when there is none.
AccountConstraint(body) ==
    IF \E a \in Account : a.username = body.username
    THEN "account_username_key"
    ELSE IF \E a \in Account : a.email = body.email
    THEN "account_email_key"
    ELSE IF \E a \in Account : a.phone = body.phone
    THEN "account_phone_key"
    ELSE ""

\* The Account rows that make the insert violate the constraint it reports.
ConflictingAccounts(body) ==
    LET c == AccountConstraint(body)
    IN { a \in Account :
           \/ c = "account_username_key" /\ a.username = body.username
           \/ c = "account_email_key" /\ a.email = body.email
           \/ c = "account_phone_key" /\ a.phone = body.phone }

AccountRow(id, body) ==
    [account_id |-> id, firstname |-> body.firstname,
     lastname |-> body.lastname, username |-> body.username,
     email |-> body.email, phone |-> body.phone,
     account_role |-> parseInt(body.role)]

\* Storage executes INSERT INTO Account ... RETURNING account_id, or rejects
\* the query for a reason of its own (fault).
StorageAccountInsert(r) ==
    /\ req[r].pc = "account_insert"
    /\ \E fault \in BOOLEAN :
         LET body == req[r].body
             c == AccountConstraint(body)
         IN IF fault
            THEN /\ req' = [req EXCEPT ![r] =
                              [Reject(req[r], "INSERT INTO Account rejected")
                                 EXCEPT !.pc = "account_insert_settled"]]
                 /\ UNCHANGED <<Account, account_id_seq, observed>>
            ELSE IF c # ""
            THEN /\ req' = [req EXCEPT ![r] =
                              [Reject(req[r], "INSERT INTO Account rejected")
                                 EXCEPT !.pc = "account_insert_settled",
                                        !.result.constraint = c]]
                 /\ account_id_seq' = account_id_seq + 1
                 /\ observed' = observed \cup
                      { [by |-> r, account_id |-> a.account_id] :
                          a \in { x \in ConflictingAccounts(body) :
                                    /\ ~HasCredential(x.account_id)
                                    /\ Registering(r, x.account_id) } }
                 /\ UNCHANGED Account
            ELSE /\ Account' = Account \cup {AccountRow(account_id_seq, body)}
                 /\ account_id_seq' = account_id_seq + 1
                 /\ req' = [req EXCEPT ![r].pc = "account_insert_settled",
                                       ![r].result = [NoResult EXCEPT
                                            !.account_id = account_id_seq,
                                            !.rowCount = 1]]
                 /\ UNCHANGED observed
    /\ UNCHANGED <<Account_Credential, secret, BOOKS>>

\* A .then of the Account insert that answers 201 as soon as the Credential
\* insert is issued.
RegisterAccountThenAnswersEarly(r) ==
    /\ req[r].pc = "account_insert_settled"
    /\ req[r].result.ok
    /\ \E salt \in Salts :
         LET id == req[r].result.account_id
             q == [Hashed(req[r]) EXCEPT
                     !.id = id,
                     !.values = [account_id |-> id,
                                 salted_hash |-> generateHash(req[r].body.password, salt),
                                 salt |-> salt]]
             accessToken == jwtSign([role |-> q.body.role, id |-> q.id], secret)
         IN req' = [req EXCEPT ![r] =
                      Query(Send(q, [status |-> 201, message |-> "",
                                     accessToken |-> <<accessToken>>,
                                     id |-> <<>>, user |-> <<>>]),
                            "INSERT INTO Account_Credential", "credential_insert")]
    /\ UNCHANGED <<Account, Account_Credential, account_id_seq, secret, BOOKS,
                   observed>>

\* A .then of the Account insert that hashes the password under one salt and
\* stores another.
RegisterAccountThenOtherSalt(r) ==
    /\ req[r].pc = "account_insert_settled"
    /\ req[r].result.ok
    /\ \E salt \in Salts :
         LET id == req[r].result.account_id
             q == [Hashed(req[r]) EXCEPT
                     !.id = id,
                     !.values = [account_id |-> id,
                                 salted_hash |-> generateHash(req[r].body.password, "saltA"),
                                 salt |-> salt]]
         IN req' = [req EXCEPT ![r] =
                      Query(q, "INSERT INTO Account_Credential", "credential_insert")]
    /\ UNCHANGED <<Account, Account_Credential, account_id_seq, secret, BOOKS,
                   observed>>

\* .then of the Account insert: stash request.id and call next(), the handler
\* that salts and hashes the password and issues the Credential insert.
RegisterAccountThen(r) ==
    /\ req[r].pc = "account_insert_settled"
    /\ req[r].result.ok
    /\ \E salt \in Salts :
         LET id == req[r].result.account_id
             q == [Hashed(req[r]) EXCEPT
                     !.id = id,
                     !.values = [account_id |-> id,
                                 salted_hash |-> generateHash(req[r].body.password, salt),
                                 salt |-> salt]]
         IN req' = [req EXCEPT ![r] =
                      Query(q, "INSERT INTO Account_Credential", "credential_insert")]
    /\ UNCHANGED <<Account, Account_Credential, account_id_seq, secret, BOOKS,
                   observed>>

\* A .catch of the Account insert that tests for a constraint name the
\* schema does not have.
RegisterAccountCatchMisnamed(r) ==
    /\ req[r].pc = "account_insert_settled"
    /\ ~req[r].result.ok
    /\ LET c == req[r].result.constraint
       IN req' = [req EXCEPT ![r] =
                    IF c = "account_user_key"
                    THEN Done(Send(req[r], Message(400, "Username exists")))
                    ELSE IF c = "account_email_key"
                    THEN Done(Send(req[r], Message(400, "Email exists")))
                    ELSE Done(Send(Log(Log(req[r], "DB Query error on register"),
                                       "INSERT INTO Account rejected"),
                                   Message(500, "server error - contact support")))]
    /\ UNCHANGED <<Account, Account_Credential, account_id_seq, secret, BOOKS,
                   observed>>

\* A .catch of the Account insert that reports a duplicate phone like a
\* duplicate username or email.
RegisterAccountCatchPhone(r) ==
    /\ req[r].pc = "account_insert_settled"
    /\ ~req[r].result.ok
    /\ LET c == req[r].result.constraint
       IN req' = [req EXCEPT ![r] =
                    IF c = "account_username_key"
                    THEN Done(Send(req[r], Message(400, "Username exists")))
                    ELSE IF c = "account_email_key"
                    THEN Done(Send(req[r], Message(400, "Email exists")))
                    ELSE IF c = "account_phone_key"
                    THEN Done(Send(req[r], Message(400, "Phone exists")))
                    ELSE Done(Send(Log(Log(req[r], "DB Query error on register"),
                                       "INSERT INTO Account rejected"),
                                   Message(500, "server error - contact support")))]
    /\ UNCHANGED <<Account, Account_Credential, account_id_seq, secret, BOOKS,
                   observed>>

\* .catch of the Account insert.
RegisterAccountCatch(r) ==
    /\ req[r].pc = "account_insert_settled"
    /\ ~req[r].result.ok
    /\ LET c == req[r].result.constraint
       IN req' = [req EXCEPT ![r] =
                    IF c = "account_username_key"
                    THEN Done(Send(req[r], Message(400, "Username exists")))
                    ELSE IF c = "account_email_key"
                    THEN Done(Send(req[r], Message(400, "Email exists")))
                    ELSE Done(Send(Log(Log(req[r], "DB Query error on register"),
                                       "INSERT INTO Account rejected"),
                                   Message(500, "server error - contact support")))]
    /\ UNCHANGED <<Account, Account_Credential, account_id_seq, secret, BOOKS,
                   observed>>

\* Storage executes INSERT INTO Account_Credential, or rejects it. Either
\* way the query's values are consumed.
StorageCredentialInsert(r) ==
    /\ req[r].pc = "credential_insert"
    /\ \E fault \in BOOLEAN :
         IF fault
         THEN /\ req' = [req EXCEPT ![r] =
                           [Reject(req[r], "INSERT INTO Account_Credential rejected")
                              EXCEPT !.pc = "credential_insert_settled",
                                     !.values = NoValues]]
              /\ UNCHANGED Account_Credential
         ELSE /\ Account_Credential' = Account_Credential \cup {req[r].values}
              /\ req' = [req EXCEPT ![r].pc = "credential_insert_settled",
                                    ![r].values = NoValues,
                                    ![r].result = [NoResult EXCEPT !.rowCount = 1]]
    /\ UNCHANGED <<Account, account_id_seq, secret, BOOKS, observed>>

\* The body of the .catch around the Credential insert: issue the DELETE of
\* the Account row, log the error caught, and send the 500, all in the same
\* callback.
CredentialCatch(q, error) ==
    Send(Log(Log(Query(q, "DELETE FROM Account", "account_delete"),
                 "DB Query error on register"),
             error),
         Message(500, "server error - contact support"))

\* .then of the Credential insert: sign the token and answer 201. An
\* exception thrown here lands in the .catch chained after it.
RegisterCredentialThen(r) ==
    /\ req[r].pc = "credential_insert_settled"
    /\ req[r].result.ok
    /\ LET q == req[r]
           accessToken == jwtSign([role |-> q.body.role, id |-> q.id], secret)
           \* user.id is request.body.id, a field the body does not carry.
           user == [id |-> <<>>, name |-> q.body.firstname,
                    email |-> q.body.email, role |-> q.body.role]
       IN req' = [req EXCEPT ![r] =
                    IF jwtSignThrows(secret)
                    THEN CredentialCatch(Throw(q, SecretError), SecretError)
                    ELSE Done(Send(q, [status |-> 201, message |-> "",
                                       accessToken |-> <<accessToken>>,
                                       id |-> <<>>, user |-> <<user>>]))]
    /\ UNCHANGED <<Account, Account_Credential, account_id_seq, secret, BOOKS,
                   observed>>

\* .catch of the Credential insert, entered by a rejected query.
RegisterCredentialCatch(r) ==
    /\ req[r].pc = "credential_insert_settled"
    /\ ~req[r].result.ok
    /\ req' = [req EXCEPT ![r] =
                 CredentialCatch(req[r], "INSERT INTO Account_Credential rejected")]
    /\ UNCHANGED <<Account, Account_Credential, account_id_seq, secret, BOOKS,
                   observed>>

\* Storage executes DELETE FROM Account WHERE account_ID = $1, or rejects it;
\* a rejection has no handler (the promise has a .then only).
StorageAccountDelete(r) ==
    /\ req[r].pc = "account_delete"
    /\ \E fault \in BOOLEAN :
         LET hit == { a \in Account : a.account_id = req[r].id }
         IN IF fault
            THEN /\ req' = [req EXCEPT ![r] =
                              Done(Throw(Reject(req[r], "DELETE FROM Account rejected"),
                                         "UnhandledRejection"))]
                 /\ UNCHANGED Account
            ELSE /\ Account' = Account \ hit
                 /\ req' = [req EXCEPT ![r].pc = "account_delete_settled",
                                       ![r].result = [NoResult EXCEPT
                                            !.rowCount = Cardinality(hit)]]
    /\ UNCHANGED <<Account_Credential, account_id_seq, secret, BOOKS, observed>>

\* .then of the compensating delete.
RegisterDeleteThen(r) ==
    /\ req[r].pc = "account_delete_settled"
    /\ req' = [req EXCEPT ![r] =
                 IF req[r].result.rowCount > 0
                 THEN Done(Send(req[r], Message(200, "Deleted from ID.")))
                 ELSE Done(Send(req[r], Message(404, "No id was found.")))]
    /\ UNCHANGED <<Account, Account_Credential, account_id_seq, secret, BOOKS,
                   observed>>

\* A lookup that filters on Account.username instead of Account.email.
CredentialLookupByUsername(email) ==
    { [salted_hash |-> c.salted_hash, salt |-> c.salt,
       account_id |-> c.account_id, email |-> a.email,
       firstname |-> a.firstname, account_role |-> a.account_role] :
        <<c, a>> \in { p \in Account_Credential \X Account :
                         /\ p[1].account_id = p[2].account_id
                         /\ p[2].username = email } }

(***************************************************************************)
(* POST /login and PUT /change_password                                    *)
(***************************************************************************)
\* SELECT ... FROM Account_Credential INNER JOIN Account ON the account_id
\* WHERE Account.email = $1.
CredentialLookup(email) ==
    { [salted_hash |-> c.salted_hash, salt |-> c.salt,
       account_id |-> c.account_id, email |-> a.email,
       firstname |-> a.firstname, account_role |-> a.account_role] :
        <<c, a>> \in { p \in Account_Credential \X Account :
                         /\ p[1].account_id = p[2].account_id
                         /\ p[2].email = email } }

\* The first middleware of /login and of /change_password.
AuthValidation(body) ==
    IF isValidEmail(body.email) /\ isValidPassword(body.password)
    THEN ""
    ELSE "Missing required information"

AuthReceive(r, kind, body) ==
    /\ CanReceive(r)
    /\ LET q == [req[r] EXCEPT !.kind = kind, !.body = body]
           m == AuthValidation(body)
       IN req' = [req EXCEPT ![r] =
                    IF m # ""
                    THEN Done(Send(q, Message(400, m)))
                    ELSE Query(q, "SELECT", "lookup")]
    /\ UNCHANGED <<Account, Account_Credential, account_id_seq, secret, BOOKS,
                   observed>>

LoginReceive(r, body) == AuthReceive(r, "login", body)

ChangePasswordReceive(r, body) == AuthReceive(r, "change_password", body)

\* Storage executes the lookup, or rejects it. /change_password chains no
\* .catch, so there a rejection has no handler.
StorageLookup(r) ==
    /\ req[r].pc = "lookup"
    /\ \E fault \in BOOLEAN :
         LET rows == CredentialLookup(req[r].body.email)
         IN req' = [req EXCEPT ![r] =
                      IF ~fault
                      THEN [req[r] EXCEPT
                              !.pc = "lookup_settled",
                              !.result = [NoResult EXCEPT
                                            !.rows = rows,
                                            !.rowCount = Cardinality(rows)]]
                      ELSE IF req[r].kind = "login"
                      THEN [Reject(req[r], "SELECT rejected")
                              EXCEPT !.pc = "lookup_settled"]
                      ELSE Done(Throw(Reject(req[r], "SELECT rejected"),
                                      "UnhandledRejection"))]
    /\ UNCHANGED <<Account, Account_Credential, account_id_seq, secret, BOOKS,
                   observed>>

\* The body of the .catch of /login, which logs the error it caught.
LoginCatchBody(q, error) ==
    Done(Send(Log(Log(q, "DB Query error on sign in"), error),
              Message(500, "server error - contact support")))

\* A comparison that issues the token when the hashes differ.
LoginCompareInverted(q, row, key) ==
    LET providedSaltedHash == generateHash(q.body.password, row.salt)
        accessToken == jwtSign([name |-> row.firstname,
                                role |-> row.account_role,
                                id |-> row.account_id], key)
    IN IF row.salted_hash # providedSaltedHash
       THEN IF jwtSignThrows(key)
            THEN LoginCatchBody(Throw(Hashed(q), SecretError), SecretError)
            ELSE Done(Send(Hashed(q),
                           [status |-> 200, message |-> "",
                            accessToken |-> <<accessToken>>,
                            id |-> <<row.account_id>>, user |-> <<>>]))
       ELSE Done(Send(Hashed(q), Message(400, "Credentials did not match")))

\* A comparison that answers a mismatch like an unknown email.
LoginCompareUniform(q, row, key) ==
    LET providedSaltedHash == generateHash(q.body.password, row.salt)
        accessToken == jwtSign([name |-> row.firstname,
                                role |-> row.account_role,
                                id |-> row.account_id], key)
    IN IF row.salted_hash = providedSaltedHash
       THEN IF jwtSignThrows(key)
            THEN LoginCatchBody(Throw(Hashed(q), SecretError), SecretError)
            ELSE Done(Send(Hashed(q),
                           [status |-> 200, message |-> "",
                            accessToken |-> <<accessToken>>,
                            id |-> <<row.account_id>>, user |-> <<>>]))
       ELSE Done(Send(Hashed(q), Message(404, "User not found")))

\* /login with the one row it found: recompute the hash under the stored
\* salt, compare, and sign a token on a match.
LoginCompare(q, row, key) ==
    LET providedSaltedHash == generateHash(q.body.password, row.salt)
        accessToken == jwtSign([name |-> row.firstname,
                                role |-> row.account_role,
                                id |-> row.account_id], key)
    IN IF row.salted_hash = providedSaltedHash
       THEN IF jwtSignThrows(key)
            THEN LoginCatchBody(Throw(Hashed(q), SecretError), SecretError)
            ELSE Done(Send(Hashed(q),
                           [status |-> 200, message |-> "",
                            accessToken |-> <<accessToken>>,
                            id |-> <<row.account_id>>, user |-> <<>>]))
       ELSE Done(Send(Hashed(q), Message(400, "Credentials did not match")))

\* A .then without the rowCount > 1 branch: it goes on with rows[0].
LoginOutcomeFirstRow(q, rows, key) ==
    IF Cardinality(rows) = 0
    THEN Done(Send(q, Message(404, "User not found")))
    ELSE LoginCompare(q, CHOOSE x \in rows : TRUE, key)

\* What the .then of the /login lookup does with the rows it got.
LoginOutcome(q, rows, key) ==
    IF Cardinality(rows) = 0
    THEN Done(Send(q, Message(404, "User not found")))
    ELSE IF Cardinality(rows) > 1
    THEN Done(Send(Log(q, "DB Query error on sign in: too many results returned"),
                   Message(500, "server error - contact support")))
    ELSE LoginCompare(q, CHOOSE x \in rows : TRUE, key)

LoginThen(r) ==
    /\ req[r].kind = "login"
    /\ req[r].pc = "lookup_settled"
    /\ req[r].result.ok
    /\ req' = [req EXCEPT ![r] = LoginOutcome(req[r], req[r].result.rows, secret)]
    /\ UNCHANGED <<Account, Account_Credential, account_id_seq, secret, BOOKS,
                   observed>>

LoginCatch(r) ==
    /\ req[r].kind = "login"
    /\ req[r].pc = "lookup_settled"
    /\ ~req[r].result.ok
    /\ req' = [req EXCEPT ![r] = LoginCatchBody(req[r], "SELECT rejected")]
    /\ UNCHANGED <<Account, Account_Credential, account_id_seq, secret, BOOKS,
                   observed>>

\* A .then of /change_password that takes a matching password for the new one.
ChangePasswordOutcomeOnMatch(q, rows, key) ==
    IF Cardinality(rows) = 0
    THEN Done(Send(q, Message(404, "User not found")))
    ELSE IF Cardinality(rows) > 1
    THEN Done(Send(Log(q, "DB Query error on sign in: too many results returned"),
                   Message(500, "server error - contact support")))
    ELSE LET row == CHOOSE x \in rows : TRUE
             storedSaltedHash == row.salted_hash
             providedSaltedHash == generateHash(q.body.password, row.salt)
             accessToken == jwtSign([name |-> row.firstname,
                                     role |-> row.account_role,
                                     id |-> row.account_id], key)
         IN IF storedSaltedHash = providedSaltedHash
            THEN IF jwtSignThrows(key)
                 THEN Done(Throw(Throw(Hashed(q), SecretError),
                                 "UnhandledRejection"))
                 ELSE Query([Send(Hashed(q),
                                  [status |-> 200, message |-> "",
                                      accessToken |-> <<accessToken>>,
                                      id |-> <<row.account_id>>, user |-> <<>>])
                               EXCEPT !.values = [account_id |-> row.account_id,
                                                  salted_hash |-> storedSaltedHash,
                                                  salt |-> row.salt]],
                            "UPDATE Account_Credential", "credential_update")
            ELSE Done(Send(Hashed(q), Message(400,
                   "Credentials did match, no new password was created")))

\* What the .then of the /change_password lookup does with the rows it got.
\* An exception thrown by jwt.sign has no handler.
ChangePasswordOutcome(q, rows, key) ==
    IF Cardinality(rows) = 0
    THEN Done(Send(q, Message(404, "User not found")))
    ELSE IF Cardinality(rows) > 1
    THEN Done(Send(Log(q, "DB Query error on sign in: too many results returned"),
                   Message(500, "server error - contact support")))
    ELSE LET row == CHOOSE x \in rows : TRUE
             storedSaltedHash == row.salted_hash
             providedSaltedHash == generateHash(q.body.password, row.salt)
             accessToken == jwtSign([name |-> row.firstname,
                                     role |-> row.account_role,
                                     id |-> row.account_id], key)
         IN IF storedSaltedHash # providedSaltedHash
            THEN IF jwtSignThrows(key)
                 THEN Done(Throw(Throw(Hashed(q), SecretError),
                                 "UnhandledRejection"))
                 ELSE Query([Send(Hashed(q),
                                  [status |-> 200, message |-> "",
                                      accessToken |-> <<accessToken>>,
                                      id |-> <<row.account_id>>, user |-> <<>>])
                               EXCEPT !.values = [account_id |-> row.account_id,
                                                  salted_hash |-> storedSaltedHash,
                                                  salt |-> row.salt]],
                            "UPDATE Account_Credential", "credential_update")
            ELSE Done(Send(Hashed(q), Message(400,
                   "Credentials did match, no new password was created")))

ChangePasswordThen(r) ==
    /\ req[r].kind = "change_password"
    /\ req[r].pc = "lookup_settled"
    /\ req' = [req EXCEPT ![r] =
                 ChangePasswordOutcome(req[r], req[r].result.rows, secret)]
    /\ UNCHANGED <<Account, Account_Credential, account_id_seq, secret, BOOKS,
                   observed>>

\* Storage executes UPDATE Account_Credential SET salted_hash = $1 WHERE
\* account_id = $2, or rejects it.
StorageCredentialUpdate(r) ==
    /\ req[r].pc = "credential_update"
    /\ \E fault \in BOOLEAN :
         IF fault
         THEN /\ req' = [req EXCEPT ![r] =
                           [Reject(req[r], "UPDATE Account_Credential rejected")
                              EXCEPT !.pc = "credential_update_rejected",
                                     !.values = NoValues]]
              /\ UNCHANGED Account_Credential
         ELSE /\ Account_Credential' =
                   { IF c.account_id = req[r].values.account_id
                     THEN [c EXCEPT !.salted_hash = req[r].values.salted_hash]
                     ELSE c : c \in Account_Credential }
              /\ req' = [req EXCEPT ![r] = Done([req[r] EXCEPT !.values = NoValues])]
    /\ UNCHANGED <<Account, account_id_seq, secret, BOOKS, observed>>

\* .catch of the UPDATE.
ChangePasswordUpdateCatch(r) ==
    /\ req[r].pc = "credential_update_rejected"
    /\ req' = [req EXCEPT ![r] =
                 Done(Send(Log(Log(req[r], "BD query error on Put password"),
                               "UPDATE Account_Credential rejected"),
                           Message(500, "Server error - contact support team")))]
    /\ UNCHANGED <<Account, Account_Credential, account_id_seq, secret, BOOKS,
                   observed>>

(***************************************************************************)
(* Specification                                                           *)
(***************************************************************************)
Next ==
    \E r \in Requests :
        \/ \E body \in RegisterBodies : RegisterReceive(r, body)
        \/ StorageAccountInsert(r)
        \/ RegisterAccountThen(r)
        \/ RegisterAccountCatch(r)
        \/ StorageCredentialInsert(r)
        \/ RegisterCredentialThen(r)
        \/ RegisterCredentialCatch(r)
        \/ StorageAccountDelete(r)
        \/ RegisterDeleteThen(r)
        \/ \E body \in AuthBodies : LoginReceive(r, body)
        \/ \E body \in AuthBodies : ChangePasswordReceive(r, body)
        \/ StorageLookup(r)
        \/ LoginThen(r)
        \/ LoginCatch(r)
        \/ ChangePasswordThen(r)
        \/ StorageCredentialUpdate(r)
        \/ ChangePasswordUpdateCatch(r)

Spec == Init /\ [][Next]_vars

\* Storage as the server may find it at startup: init.sql creates Account with
\* its UNIQUE constraints and declares nothing about Account_Credential, so
\* one account may own two Account_Credential rows.
InitSeeded ==
    /\ Account = {AccountRow(1, Body(NameA, NameA, UserAb1, EmailAb1, PhoneA,
                                     RoleThree, PwOne))}
    /\ Account_Credential =
         { [account_id |-> 1, salted_hash |-> generateHash(PwOne, salt),
            salt |-> salt] : salt \in Salts }
    /\ account_id_seq = 2
    /\ secret \in SecretValues
    /\ req = [r \in Requests |-> IdleRequest]
    /\ observed = {}
    /\ BOOKS = {}

SpecSeeded == InitSeeded /\ [][Next]_vars

(***************************************************************************)
(* The protected routes: closedRoutes.use(prefix, checkToken, ..., router)  *)
(***************************************************************************)

\* verify(token, secret): the error it fails with ("" when it succeeds) and
\* the claims it decodes. The signature is checked before the expiry.
verify(token, key) ==
    IF key = <<>>
    THEN [err |-> "SecretMissing", decoded |-> <<>>]
    ELSE IF ~token.wellformed
    THEN [err |-> "TokenMalformed", decoded |-> <<>>]
    ELSE IF token.key # key
    THEN [err |-> "TokenInvalidSignature", decoded |-> <<>>]
    ELSE IF token.expired
    THEN [err |-> "TokenExpired", decoded |-> <<>>]
    ELSE [err |-> "", decoded |-> <<token.payload>>]

\* The request as checkToken leaves it when it forwards: claims attached,
\* next() called.
Forward(q, decoded) ==
    [q EXCEPT !.claims = decoded, !.forwarded = @ + 1, !.pc = "handler"]

\* A gate that answers an expired token differently from a forged one.
checkTokenTellsExpired(q, key) ==
    LET h == q.authorization
        v == verify(h[1].token, key)
    IN IF h = NoHeader
       THEN Done(Send(q, Message(401, "Auth token is not supplied")))
       ELSE IF h[1].scheme # "Bearer"
       THEN Done(Send(q, Message(400, "MalformedHeader")))
       ELSE IF v.err = "TokenExpired"
       THEN Done(Send(q, Message(401, "Token expired")))
       ELSE IF v.err # ""
       THEN Done(Send(q, Message(403, "Token is not valid")))
       ELSE Forward(q, v.decoded)

\* checkToken(request, response, next): NoToken -> ExtractHeader -> Verify ->
\* Admitted | Rejected.
checkToken(q, key) ==
    LET h == q.authorization
        v == verify(h[1].token, key)
    IN IF h = NoHeader
       THEN Done(Send(q, Message(401, "Auth token is not supplied")))
       ELSE IF h[1].scheme # "Bearer"
       THEN Done(Send(q, Message(400, "MalformedHeader")))
       ELSE IF v.err # ""
       THEN Done(Send(q, Message(403, "Token is not valid")))
       ELSE Forward(q, v.decoded)

\* A mount of the router without the gate in front of it.
ClosedRouteUngated(r, header) ==
    /\ CanReceive(r)
    /\ req' = [req EXCEPT ![r] =
                 [req[r] EXCEPT !.kind = "protected",
                                !.authorization = header,
                                !.pc = "handler"]]
    /\ UNCHANGED <<Account, Account_Credential, account_id_seq, secret, BOOKS,
                   observed>>

\* A request under the protected prefix arrives: the first middleware of the
\* mount is checkToken, and the routers after it run only through its next().
ClosedRoute(r, header) ==
    /\ CanReceive(r)
    /\ req' = [req EXCEPT ![r] =
                 checkToken([req[r] EXCEPT !.kind = "protected",
                                           !.authorization = header],
                            secret)]
    /\ UNCHANGED <<Account, Account_Credential, account_id_seq, secret, BOOKS,
                   observed>>

\* The statuses a route handler of the protected router answers with.
HandlerStatuses == {200, 400, 404, 500}

\* The route handler of the protected router runs and answers.
ProtectedHandler(r) ==
    /\ req[r].kind = "protected"
    /\ req[r].pc = "handler"
    /\ \E status \in HandlerStatuses :
         req' = [req EXCEPT ![r] =
                   Done(Send([req[r] EXCEPT !.handled = @ + 1],
                             Message(status, "")))]
    /\ UNCHANGED <<Account, Account_Credential, account_id_seq, secret, BOOKS,
                   observed>>

NextGate ==
    \E r \in Requests :
        \/ \E header \in Headers : ClosedRoute(r, header)
        \/ ProtectedHandler(r)

SpecGate == Init /\ [][NextGate]_vars

(***************************************************************************)
(* PUT /ratings/:isbn/:oneStar/:twoStar/:threeStar/:fourStar/:fiveStar     *)
(***************************************************************************)

\* A JavaScript number: <<n>>, or NaN.
NaN == <<>>

\* Unary plus on a route parameter: the value of a numeric string, 0 for the
\* empty string, NaN for anything else.
ToNumber(s) == IF Chars(s) \subseteq Digits THEN <<parseInt(s)>> ELSE NaN

\* validationFunctions.isNumberProvided of a number.
isNumberProvidedOfNumber(n) == n # NaN

\* a + b and a * k on JavaScript numbers.
Plus(a, b) == IF a = NaN \/ b = NaN THEN NaN ELSE <<a[1] + b[1]>>

Times(a, k) == IF a = NaN THEN NaN ELSE <<a[1] * k>>

\* Math.floor(a / b): 0 / 0 is NaN.
FloorDiv(a, b) ==
    IF a = NaN \/ b = NaN THEN NaN
    ELSE IF b[1] = 0 THEN NaN
    ELSE <<a[1] \div b[1]>>

IsbnA == <<"9", "7", "8", "0", "0", "0", "0", "0", "0", "0", "0", "0", "1">>
IsbnB == <<"9", "7", "8", "0", "0", "0", "0", "0", "0", "0", "0", "0", "2">>
IsbnShort == <<"9", "7", "8">>
One == <<"1">>
Two == <<"2">>
Zero == <<"0">>
NotANumber == <<"x">>

Params(isbn, s1, s2, s3, s4, s5) ==
    [isbn |-> isbn, oneStar |-> s1, twoStar |-> s2, threeStar |-> s3,
     fourStar |-> s4, fiveStar |-> s5]

\* Route parameters of PUT /ratings: well-formed ones for a stored and for an
\* unknown book, no ratings at all, a star count that is not a number, and an
\* ISBN that is not one.
RatingsParams ==
    { Params(IsbnA, One, Zero, Zero, Zero, Two),
      Params(IsbnB, One, Zero, Zero, Zero, Two),
      Params(IsbnA, Zero, Zero, Zero, Zero, Zero),
      Params(IsbnA, NotANumber, Zero, Zero, Zero, Two),
      Params(IsbnA, One, Zero, Zero, Zero, NotANumber),
      Params(IsbnShort, One, Zero, Zero, Zero, Two) }

\* A row of BOOKS: the columns the route reads and writes. rating_avg is a
\* FLOAT, kept as <<numerator, denominator>> or NaN.
BookRow(isbn, title) ==
    [isbn13 |-> isbn, title |-> title, rating_avg |-> <<4, 1>>,
     rating_count |-> 1, rating_1_star |-> 0, rating_2_star |-> 0,
     rating_3_star |-> 0, rating_4_star |-> 1, rating_5_star |-> 0]

\* mwValidISBN: next() only for a 13-digit number.
mwValidISBN(isbn) == isNumberProvided(isbn) /\ Len(isbn) = 13

\* The stars of the parameters, converted.
Stars(p) ==
    <<ToNumber(p.oneStar), ToNumber(p.twoStar), ToNumber(p.threeStar),
      ToNumber(p.fourStar), ToNumber(p.fiveStar)>>

\* The condition under which mwValidRatings sends 400.
InvalidRatings(p) == \E i \in 1..5 : ~isNumberProvidedOfNumber(Stars(p)[i])

\* The values the route handler binds to the UPDATE.
RatingsValues(p) ==
    LET s == Stars(p)
        ratingCount == Plus(Plus(Plus(Plus(s[1], s[2]), s[3]), s[4]), s[5])
        weighted == Plus(Plus(Plus(Plus(s[1], Times(s[2], 2)), Times(s[3], 3)),
                              Times(s[4], 4)), Times(s[5], 5))
    IN [stars |-> s, ratingCount |-> ratingCount,
        ratingAvg |-> FloorDiv(weighted, ratingCount), isbn |-> p.isbn]

\* The route handler: compute the values and issue the UPDATE.
RatingsHandler(q) ==
    Query([q EXCEPT !.handled = @ + 1,
                    !.ratings = <<RatingsValues(q.params[1])>>],
          "UPDATE BOOKS", "books_update")

\* mwValidRatings: answer 400 when a star is not a number, then next()
\* whatever the answer was; next() runs the route handler.
mwValidRatings(q) ==
    RatingsHandler(IF InvalidRatings(q.params[1])
                   THEN Send(q, Message(400, "Invalid Ratings"))
                   ELSE q)

\* PUT /ratings/... arrives: mwValidISBN, mwValidRatings, route handler.
RatingsReceive(r, p) ==
    /\ CanReceive(r)
    /\ LET q == [req[r] EXCEPT !.kind = "ratings", !.params = <<p>>]
       IN req' = [req EXCEPT ![r] =
                    IF mwValidISBN(p.isbn)
                    THEN mwValidRatings(q)
                    ELSE Done(Send(q, Message(400,
                           "Invalid or missing ISBN parameter - please provide a 13-digit number.")))]
    /\ UNCHANGED <<Account, Account_Credential, account_id_seq, secret, BOOKS,
                   observed>>

\* The rating_avg column after rating_avg = (rating_avg + $7) / 2.
AvgUpdate(avg, a) ==
    IF avg = NaN \/ a = NaN THEN NaN
    ELSE <<avg[1] + a[1] * avg[2], 2 * avg[2]>>

\* The row after UPDATE BOOKS SET ... with these values.
UpdatedBook(b, v) ==
    [b EXCEPT !.rating_1_star = @ + v.stars[1][1],
              !.rating_2_star = @ + v.stars[2][1],
              !.rating_3_star = @ + v.stars[3][1],
              !.rating_4_star = @ + v.stars[4][1],
              !.rating_5_star = @ + v.stars[5][1],
              !.rating_count = @ + v.ratingCount[1],
              !.rating_avg = AvgUpdate(@, v.ratingAvg)]

\* Storage executes UPDATE BOOKS ... WHERE isbn13 = $8 RETURNING *, or
\* rejects it: for a reason of its own, or because a value bound to an INT
\* column is NaN.
StorageBooksUpdate(r) ==
    /\ req[r].pc = "books_update"
    /\ \E fault \in BOOLEAN :
         LET v == req[r].ratings[1]
             matched == { b \in BOOKS : b.isbn13 = v.isbn }
         IN IF fault \/ v.ratingCount = NaN \/ \E i \in 1..5 : v.stars[i] = NaN
            THEN /\ req' = [req EXCEPT ![r] =
                              [Reject(req[r], "UPDATE BOOKS rejected")
                                 EXCEPT !.pc = "books_update_settled",
                                        !.ratings = <<>>]]
                 /\ UNCHANGED BOOKS
            ELSE /\ BOOKS' = (BOOKS \ matched)
                               \cup { UpdatedBook(b, v) : b \in matched }
                 /\ req' = [req EXCEPT ![r].pc = "books_update_settled",
                                       ![r].ratings = <<>>,
                                       ![r].result = [NoResult EXCEPT
                                            !.rowCount = Cardinality(matched)]]
    /\ UNCHANGED <<Account, Account_Credential, account_id_seq, secret,
                   observed>>

\* .then of the UPDATE.
RatingsThen(r) ==
    /\ req[r].kind = "ratings"
    /\ req[r].pc = "books_update_settled"
    /\ req[r].result.ok
    /\ req' = [req EXCEPT ![r] =
                 Done(Send(req[r],
                           IF req[r].result.rowCount > 0
                           THEN Message(200, "Updated books")
                           ELSE Message(404, "No book found.")))]
    /\ UNCHANGED <<Account, Account_Credential, account_id_seq, secret, BOOKS,
                   observed>>

\* .catch of the UPDATE.
RatingsCatch(r) ==
    /\ req[r].kind = "ratings"
    /\ req[r].pc = "books_update_settled"
    /\ ~req[r].result.ok
    /\ req' = [req EXCEPT ![r] =
                 Done(Send(Log(Log(req[r], "DB Query error on UPDATE"),
                               "UPDATE BOOKS rejected"),
                           Message(500, "Server error - contact support.")))]
    /\ UNCHANGED <<Account, Account_Credential, account_id_seq, secret, BOOKS,
                   observed>>

\* The catalogue holds one book.
InitRatings ==
    /\ Account = {}
    /\ Account_Credential = {}
    /\ account_id_seq = 1
    /\ secret \in SecretValues
    /\ req = [r \in Requests |-> IdleRequest]
    /\ observed = {}
    /\ BOOKS = {BookRow(IsbnA, "title")}

NextRatings ==
    \E r \in Requests :
        \/ \E p \in RatingsParams : RatingsReceive(r, p)
        \/ StorageBooksUpdate(r)
        \/ RatingsThen(r)
        \/ RatingsCatch(r)

SpecRatings == InitRatings /\ [][NextRatings]_vars

(***************************************************************************)
(* Properties                                                              *)
(***************************************************************************)
Status(r) == IF req[r].sent = <<>> THEN 0 ELSE req[r].sent[1].status

CarriesToken(r) == req[r].sent # <<>> /\ req[r].sent[1].accessToken # <<>>

AccountExists(a) == \E x \in Account : x.account_id = a

\* The lookup of request r returned exactly one row and the hash of the
\* supplied password under that row's salt is (match) or is not (~match) the
\* stored one.
OneRow(r, match) ==
    /\ req[r].result.ok
    /\ Cardinality(req[r].result.rows) = 1
    /\ \A row \in req[r].result.rows :
         (row.salted_hash = generateHash(req[r].body.password, row.salt)) = match

\* C1: whenever every started /register request has finished (no Account
\* insert, Credential insert or compensating delete of it is outstanding),
\* every Account row has an Account_Credential row with the same account_id,
\* whatever the outcomes of the inserts and of the delete were.
C1_AccountHasCredentialWhenQuiescent ==
    (\A r \in Requests :
        req[r].kind = "register" => req[r].pc = "done")
    => \A a \in Account : HasCredential(a.account_id)

\* C2: when the Credential insert of /register failed, no response has been
\* sent while the compensating DELETE is still outstanding: the failure
\* response comes after storage acknowledged the delete.
C2_DeleteAcknowledgedBeforeFailureResponse ==
    \A r \in Requests :
        (/\ req[r].kind = "register"
         /\ req[r].pc = "account_delete"
         /\ ~req[r].result.ok)
        => req[r].sent = <<>>

C4_CreatedOnlyWithBothRows ==
    \A r \in Requests :
        (req[r].kind = "register" /\ Status(r) = 201)
        => /\ CarriesToken(r)
           /\ AccountExists(req[r].id)
           /\ HasCredential(req[r].id)

C4_Created ==
    \E r \in Requests : req[r].kind = "register" /\ Status(r) = 201

\* C5: when storage finds the username of a /register request taken (or, with
\* a fresh username, its email), the insert changes neither table and reports
\* the matching constraint, and the request then answers 400 'Username exists'
\* (400 'Email exists'), issues no further query and changes neither table.
C5_DuplicateRejected ==
    [][\A r \in Requests :
         LET q == req[r]
             n == req'[r]
             dupUser == \E a \in Account : a.username = q.body.username
             dupEmail == \E a \in Account : a.email = q.body.email
             unchanged == /\ Account' = Account
                          /\ Account_Credential' = Account_Credential
         IN /\ (/\ q.kind = "register"
                /\ q.pc = "account_insert"
                /\ n.pc = "account_insert_settled"
                /\ dupUser \/ dupEmail
                /\ n.result.ok \/ n.result.constraint # "")
               => /\ unchanged
                  /\ n.result.constraint =
                       IF dupUser THEN "account_username_key"
                       ELSE "account_email_key"
            /\ (/\ q.kind = "register"
                /\ q.pc = "account_insert_settled"
                /\ q.result.constraint \in
                     {"account_username_key", "account_email_key"}
                /\ n # q)
               => /\ unchanged
                  /\ n.pc = "done"
                  /\ n.queries = {"INSERT INTO Account"}
                  /\ n.sent =
                       <<Message(400,
                           IF q.result.constraint = "account_username_key"
                           THEN "Username exists" ELSE "Email exists")>>
      ]_vars

\* A registration was answered 201 and the same registration, repeated, was
\* answered 400 'Username exists'.
C5_Repeated ==
    \E r, o \in Requests :
        /\ req[r].kind = "register" /\ Status(r) = 201
        /\ req[o].kind = "register" /\ req[o].body = req[r].body
        /\ req[o].sent = <<Message(400, "Username exists")>>

AllFieldsValid(body) ==
    /\ isValidEmail(body.email)
    /\ isStringProvided(body.firstname)
    /\ isStringProvided(body.lastname)
    /\ isStringProvided(body.username)
    /\ isValidPhone(body.phone)
    /\ isValidPassword(body.password)
    /\ isValidRole(body.role)

\* The register bodies every field of which passes its validation rule.
BodiesPassingValidation == {body \in RegisterBodies : AllFieldsValid(body)}

\* C6: a /register request in which a field fails its validation rule is
\* answered 400 and has issued no query at all.
C6_InvalidNeverReachesStorage ==
    \A r \in Requests :
        (req[r].kind = "register" /\ req[r].body \notin BodiesPassingValidation)
        => /\ Status(r) = 400
           /\ req[r].queries = {}
           /\ req[r].pc = "done"

C6_InvalidRoleAnswered ==
    \E r \in Requests :
        /\ req[r].kind = "register"
        /\ ~isValidRole(req[r].body.role)
        /\ Status(r) = 400

\* C7: a /login response carries an accessToken only if the lookup returned
\* exactly one row and the hash of the supplied password under the stored salt
\* equals the stored salted_hash; when that hash differs the answer is 400
\* 'Credentials did not match', without a token.
C7_TokenOnlyOnMatch ==
    \A r \in Requests :
        (req[r].kind = "login" /\ req[r].sent # <<>>)
        => /\ CarriesToken(r) => OneRow(r, TRUE)
           /\ OneRow(r, FALSE)
                => req[r].sent = <<Message(400, "Credentials did not match")>>

C7_LoggedIn ==
    \E r \in Requests : req[r].kind = "login" /\ CarriesToken(r)

\* C8: a /login whose lookup returned no row is answered 404 'User not found'
\* and one whose lookup returned more than one row is answered 500; neither
\* computes a hash nor carries a token.
C8_RowCountBranches ==
    \A r \in Requests :
        (/\ req[r].kind = "login"
         /\ req[r].pc = "done"
         /\ "SELECT" \in req[r].queries
         /\ req[r].result.ok
         /\ Cardinality(req[r].result.rows) # 1)
        => /\ req[r].sent =
                IF Cardinality(req[r].result.rows) = 0
                THEN <<Message(404, "User not found")>>
                ELSE <<Message(500, "server error - contact support")>>
           /\ ~req[r].hashed
           /\ ~CarriesToken(r)

C8_TooManyRows ==
    \E r \in Requests :
        /\ req[r].kind = "login"
        /\ req[r].pc = "done"
        /\ req[r].result.ok
        /\ Cardinality(req[r].result.rows) > 1

\* The answer the /login request r would have got from a lookup that found no
\* Account with its email.
AnswerWithoutAccount(r) ==
    LoginOutcome([req[r] EXCEPT !.sent = <<>>, !.hashed = FALSE], {}, secret).sent

MismatchAnswered(r) ==
    /\ req[r].kind = "login"
    /\ req[r].pc = "done"
    /\ OneRow(r, FALSE)

\* C9 as claimed: the answer of /login to a non-matching password is the
\* answer the same request gets when no Account has the email.
C9_MismatchHidesExistence ==
    \A r \in Requests :
        MismatchAnswered(r) => req[r].sent = AnswerWithoutAccount(r)

\* C9 as amended: the answer of /login to a non-matching password is 400
\* 'Credentials did not match' when an Account with the email exists and 404
\* 'User not found' when none does; either answer is a message only, with no
\* token, id or user data.
C9_MismatchAnswers ==
    \A r \in Requests :
        MismatchAnswered(r)
        => /\ req[r].sent = <<Message(400, "Credentials did not match")>>
           /\ AnswerWithoutAccount(r) = <<Message(404, "User not found")>>

C9_Mismatch == \E r \in Requests : MismatchAnswered(r)

\* C10: a /change_password response carries an accessToken only if the hash
\* of the supplied password under the stored salt equals the stored
\* salted_hash.
C10_ChangePasswordTokenOnlyOnMatch ==
    \A r \in Requests :
        (/\ req[r].kind = "change_password"
         /\ req[r].pc = "credential_update"
         /\ CarriesToken(r))
        => OneRow(r, TRUE)

\* C11: after /change_password has answered success for an account whose
\* stored hash differs from the hash of the supplied password and storage has
\* acknowledged the UPDATE, the stored salted_hash of that account is
\* generateHash(newPassword, salt) under the stored salt.
C11_NewPasswordStored ==
    \A r \in Requests :
        (/\ req[r].kind = "change_password"
         /\ req[r].pc = "done"
         /\ Status(r) = 200
         /\ "UPDATE Account_Credential" \in req[r].queries
         /\ req[r].rejected = {})
        => \A row \in req[r].result.rows :
             \E c \in Account_Credential :
                 /\ c.account_id = row.account_id
                 /\ c.salted_hash = generateHash(req[r].body.password, c.salt)

\* The request has issued a storage write that storage has not yet settled.
WriteOutstanding(r) ==
    req[r].pc \in {"account_insert", "credential_insert", "account_delete",
                   "credential_update"}

\* C12: no /register, /login or /change_password request has sent a response
\* carrying an accessToken or a success status while a storage write it
\* issues is not yet acknowledged.
C12_NoSuccessBeforeWritesAcknowledged ==
    \A r \in Requests :
        (CarriesToken(r) \/ Status(r) \in {200, 201}) => ~WriteOutstanding(r)

\* C13: in a 201 response of /register, user.id is the account_id returned
\* by the Account insert of the request, and the id claim of the token is the
\* same account_id.
C13_CreatedCarriesAccountId ==
    \A r \in Requests :
        (req[r].kind = "register" /\ Status(r) = 201)
        => /\ req[r].sent[1].user[1].id = <<req[r].id>>
           /\ req[r].sent[1].accessToken[1].id = req[r].id

\* C14: when storage rejects the compensating delete of /register, the error
\* of the delete is logged and the client has the 500 of the original
\* failure as its one response.
C14_DeleteFailureLogged ==
    \A r \in Requests :
        (/\ req[r].kind = "register"
         /\ "DELETE FROM Account rejected" \in req[r].rejected)
        => /\ "DELETE FROM Account rejected" \in req[r].logged
           /\ req[r].sent = <<Message(500, "server error - contact support")>>

\* The queries of request r that storage rejected for a reason other than a
\* duplicate username or email.
Faults(r) ==
    IF req[r].result.constraint \in {"account_username_key", "account_email_key"}
    THEN {}
    ELSE req[r].rejected

\* C15: a /register or /login request one of whose queries storage rejected
\* (for a reason other than a duplicate username or email) is answered 500
\* with the fixed generic message and nothing else, and every such rejection
\* is logged; this includes a rejected Credential insert.
C15_FaultAnsweredGeneric500 ==
    \A r \in Requests :
        (/\ req[r].kind \in {"register", "login"}
         /\ req[r].pc = "done"
         /\ Faults(r) # {})
        => /\ req[r].sent = <<Message(500, "server error - contact support")>>
           /\ Faults(r) \subseteq req[r].logged

\* C16: an Account row leaves the table only in the compensating delete of
\* the /register request that inserted it, and only when the Credential
\* insert for its account_id did not succeed (no Account_Credential row has
\* that account_id).
C16_DeleteOnlyCompensating ==
    [][\A a \in Account \ Account' :
         /\ \E r \in Requests :
              /\ req[r].kind = "register"
              /\ req[r].pc = "account_delete"
              /\ req[r].id = a.account_id
         /\ ~HasCredential(a.account_id)]_vars

\* Two different /register requests whose Account inserts were issued with
\* the same username or the same email.
SameIdentity(r, o) ==
    /\ r # o
    /\ req[r].kind = "register" /\ "INSERT INTO Account" \in req[r].queries
    /\ req[o].kind = "register" /\ "INSERT INTO Account" \in req[o].queries
    /\ \/ req[r].body.username = req[o].body.username
       \/ req[r].body.email = req[o].body.email

\* No two Account rows share a username or an email.
AccountIdentityUnique ==
    \A a \in Account : \A b \in Account \ {a} :
        a.username # b.username /\ a.email # b.email

\* C17 as claimed: of two concurrent /register requests with the same
\* username (or email) at most one is answered 201, no two Account rows share
\* the username (email), and the other request, answered while still being
\* handled, has 400 with the matching duplicate message.
C17_LoserAnsweredDuplicate ==
    /\ AccountIdentityUnique
    /\ \A r, o \in Requests :
         (Status(r) = 201 /\ SameIdentity(r, o))
         => /\ Status(o) # 201
            /\ (req[o].sent # <<>> /\ req[o].pc # "done")
               => req[o].sent =
                    <<Message(400, IF req[r].body.username = req[o].body.username
                                   THEN "Username exists"
                                   ELSE "Email exists")>>

\* C17 as amended: at most one of the two is answered 201 and no two Account
\* rows share the username (email); the other request is answered 400
\* 'Username exists' or 'Email exists' when storage rejected its Account
\* insert on that unique constraint, and 500 with the generic message
\* otherwise.
C17_AtMostOneCreated ==
    /\ AccountIdentityUnique
    /\ \A r, o \in Requests :
         (Status(r) = 201 /\ SameIdentity(r, o))
         => /\ Status(o) # 201
            /\ req[o].sent # <<>>
               => req[o].sent =
                    <<IF req[o].result.constraint = "account_username_key"
                      THEN Message(400, "Username exists")
                      ELSE IF req[o].result.constraint = "account_email_key"
                      THEN Message(400, "Email exists")
                      ELSE Message(500, "server error - contact support")>>

\* A registration answered 201 whose Account row, while the registration was
\* still in progress, made storage reject the Account insert of another
\* request, which was answered 400.
C17_Raced ==
    \E w \in observed : \E r \in Requests :
        /\ SameIdentity(r, w.by)
        /\ req[r].id = w.account_id
        /\ Status(r) = 201
        /\ Status(w.by) = 400

\* C20: no /register, /login or /change_password request is handled with an
\* absent signing secret, so that none meets the error jwt.sign raises for a
\* missing secret.
C20_SecretAbsenceNeverPerRequest ==
    \A r \in Requests : SecretError \notin req[r].errors

\* The token of the Authorization header of request r passes verification
\* under the server's secret.
TokenVerifies(r) ==
    /\ req[r].authorization # NoHeader
    /\ req[r].authorization[1].scheme = "Bearer"
    /\ verify(req[r].authorization[1].token, secret).err = ""

\* C18: for every request under the protected prefix, a route handler runs
\* only after checkToken has forwarded the request, checkToken forwards only a
\* request whose token verifies, and it forwards a request at most once, so
\* the handler runs at most once.
C18_HandlerOnlyAfterAdmission ==
    \A r \in Requests :
        req[r].kind = "protected"
        => /\ req[r].forwarded <= 1
           /\ req[r].handled <= req[r].forwarded
           /\ (req[r].pc = "handler" \/ req[r].handled > 0)
              => /\ req[r].forwarded = 1
                 /\ TokenVerifies(r)
                 /\ req[r].claims = <<req[r].authorization[1].token.payload>>
           /\ ~TokenVerifies(r) => req[r].forwarded = 0

C18_Handled ==
    \E r \in Requests :
        /\ req[r].kind = "protected"
        /\ req[r].handled = 1
        /\ Status(r) = 200

\* C19: a protected request with no Authorization header is answered 401
\* 'Auth token is not supplied'; one whose token fails verification is
\* answered 403 'Token is not valid', the same response for an expired token
\* and for an invalid signature; in both cases the handler does not run.
C19_GateRejections ==
    \A r \in Requests :
        req[r].kind = "protected"
        => /\ req[r].authorization = NoHeader
              => /\ req[r].sent = <<Message(401, "Auth token is not supplied")>>
                 /\ req[r].pc = "done"
                 /\ req[r].handled = 0
           /\ (/\ req[r].authorization # NoHeader
               /\ req[r].authorization[1].scheme = "Bearer"
               /\ verify(req[r].authorization[1].token, secret).err # "")
              => /\ req[r].sent = <<Message(403, "Token is not valid")>>
                 /\ req[r].pc = "done"
                 /\ req[r].handled = 0

\* An expired token and a token with an invalid signature have both been
\* presented and answered.
C19_ExpiredAndForged ==
    \E r, o \in Requests :
        /\ req[r].kind = "protected" /\ req[o].kind = "protected"
        /\ req[r].authorization # NoHeader /\ req[o].authorization # NoHeader
        /\ req[r].authorization[1].scheme = "Bearer"
        /\ req[o].authorization[1].scheme = "Bearer"
        /\ verify(req[r].authorization[1].token, secret).err = "TokenExpired"
        /\ verify(req[o].authorization[1].token, secret).err = "TokenInvalidSignature"
        /\ req[r].sent = req[o].sent
        /\ Status(r) = 403

\* C21: the .then of /change_password, run for a lookup of one row whose
\* stored salted_hash is the hash of the supplied password under the stored
\* salt, answers 400 'Credentials did match, no new password was created'
\* with no token, issues no query and ends the request, and the Account and
\* Account_Credential rows are as before.
C21_MatchAnswered400 ==
    [][\A r \in Requests :
         (/\ req[r].kind = "change_password"
          /\ req[r].pc = "lookup_settled"
          /\ OneRow(r, TRUE)
          /\ req'[r] # req[r])
         => /\ req'[r].sent =
                 <<Message(400, "Credentials did match, no new password was created")>>
            /\ req'[r].pc = "done"
            /\ req'[r].queries = req[r].queries
            /\ Account' = Account
            /\ Account_Credential' = Account_Credential]_vars

C21_Matched ==
    \E r \in Requests :
        /\ req[r].kind = "change_password"
        /\ OneRow(r, TRUE)
        /\ Status(r) = 400
        /\ req[r].pc = "done"

\* C22: a Credential row that appears for an account_id that had none is the
\* row of a /register request whose Account insert returned that account_id,
\* and its salted_hash is generateHash of the password of that request under
\* the salt stored in the same row; and the .then of /login, given one row,
\* answers 200 exactly when generateHash of the supplied password under the
\* salt of that row is the salted_hash of that row.
C22_CredentialHashedUnderStoredSalt ==
    [][/\ \A c \in Account_Credential' :
            ~HasCredential(c.account_id)
            => \E r \in Requests :
                 /\ req[r].kind = "register"
                 /\ req[r].pc = "credential_insert"
                 /\ req'[r].pc = "credential_insert_settled"
                 /\ req[r].result.account_id = c.account_id
                 /\ req[r].id = c.account_id
                 /\ c.salted_hash = generateHash(req[r].body.password, c.salt)
       /\ \A r \in Requests :
            (/\ req[r].kind = "login"
             /\ req[r].pc = "lookup_settled"
             /\ req[r].result.ok
             /\ Cardinality(req[r].result.rows) = 1
             /\ ~jwtSignThrows(secret)
             /\ req'[r] # req[r])
            => \A row \in req[r].result.rows :
                 (req'[r].sent # <<>> /\ req'[r].sent[1].status = 200)
                 <=> row.salted_hash = generateHash(req[r].body.password, row.salt)]_vars

\* A /register request has stored its Credential row under the second salt
\* and a /login with the same password was answered 200 from that row.
C22_StoredAndRecomputed ==
    \E r, l \in Requests : \E c \in Account_Credential :
        /\ req[r].kind = "register"
        /\ req[r].id = c.account_id
        /\ c.salt = "saltB"
        /\ c.salted_hash = generateHash(req[r].body.password, c.salt)
        /\ req[l].kind = "login"
        /\ Status(l) = 200
        /\ \E row \in req[l].result.rows : row.account_id = c.account_id

\* C23: in every state where no /register request has a storage operation
\* pending, every Account_Credential row has an Account row with the same
\* account_id, whatever token signing and the sending of the 201 did after
\* the Credential insert succeeded.
C23_CredentialHasAccountWhenQuiescent ==
    (\A r \in Requests :
        req[r].kind = "register"
        => req[r].pc \notin {"account_insert", "credential_insert",
                             "account_delete"})
    => \A c \in Account_Credential : AccountExists(c.account_id)

\* C24: a /register request calls response.send at most once on every path:
\* no send of it finds the response already sent, also when the Credential
\* insert failed and the compensating delete has completed.
C24_RegisterSendsOnce ==
    \A r \in Requests :
        req[r].kind = "register" => "ERR_HTTP_HEADERS_SENT" \notin req[r].errors

\* C25: a /change_password request that passed validation and whose handler
\* and callbacks have all run has received a response, also when storage
\* rejected its lookup or its UPDATE.
C25_ChangePasswordAnswered ==
    \A r \in Requests :
        (/\ req[r].kind = "change_password"
         /\ "SELECT" \in req[r].queries
         /\ req[r].pc = "done")
        => req[r].sent # <<>>

\* C26: a /change_password request calls response.send or response.json at
\* most once: no send of it finds the response already sent, also when the
\* UPDATE fails after the token was sent.
C26_ChangePasswordSendsOnce ==
    \A r \in Requests :
        req[r].kind = "change_password"
        => "ERR_HTTP_HEADERS_SENT" \notin req[r].errors

\* A /register request g answered 201 and a /login request l carrying the
\* email and the password g registered.
RoundTrip(g, l) ==
    /\ req[g].kind = "register"
    /\ Status(g) = 201
    /\ req[l].kind = "login"
    /\ req[l].body.email = req[g].body.email
    /\ req[l].body.password = req[g].body.password

\* C27: when storage answers the lookup of a /login that carries the email
\* and password of a /register request already answered 201, it returns the
\* one row of that account, still holding the hash of that password; and the
\* .then of /login, given one row whose hash matches, answers 200 with an
\* accessToken whose id claim, like the id of the body, is the account_id of
\* the row.
C27_RegisterLoginRoundTrip ==
    [][/\ \A g, l \in Requests :
            (/\ RoundTrip(g, l)
             /\ req[l].pc = "lookup"
             /\ req'[l].pc = "lookup_settled"
             /\ req'[l].result.ok)
            => /\ Cardinality(req'[l].result.rows) = 1
               /\ \A row \in req'[l].result.rows :
                    /\ row.account_id = req[g].id
                    /\ row.salted_hash = generateHash(req[l].body.password, row.salt)
       /\ \A l \in Requests :
            (/\ req[l].kind = "login"
             /\ req[l].pc = "lookup_settled"
             /\ OneRow(l, TRUE)
             /\ ~jwtSignThrows(secret)
             /\ req'[l] # req[l])
            => \A row \in req[l].result.rows :
                 /\ req'[l].sent # <<>>
                 /\ req'[l].sent[1].status = 200
                 /\ req'[l].sent[1].accessToken # <<>>
                 /\ req'[l].sent[1].accessToken[1].id = row.account_id
                 /\ req'[l].sent[1].id = <<row.account_id>>]_vars

\* A /login received after a registration that was answered 201, carrying
\* its email and password, has been answered 200 with the id of the
\* registered account.
C27_LoggedInAfterRegister ==
    \E g, l \in Requests :
        /\ RoundTrip(g, l)
        /\ g < l
        /\ Status(l) = 200
        /\ req[l].sent[1].accessToken[1].id = req[g].id

\* C28: in every reachable state no two Account rows share an email and no
\* two Account_Credential rows share an account_id, so the lookup of /login
\* returns at most one row for any email, and no /login request has taken
\* the 'too many results returned' branch.
C28_LookupAtMostOneRow ==
    [](/\ \A a \in Account : \A b \in Account \ {a} : a.email # b.email
       /\ \A c \in Account_Credential : \A d \in Account_Credential \ {c} :
            c.account_id # d.account_id
       /\ \A a \in Account : Cardinality(CredentialLookup(a.email)) <= 1
       /\ \A r \in Requests :
            req[r].kind = "login"
            => /\ Cardinality(req[r].result.rows) <= 1
               /\ "DB Query error on sign in: too many results returned"
                    \notin req[r].logged)

\* The lookup of a /login request has returned the one row of a stored
\* account.
C28_LookedUp ==
    \E r \in Requests : \E a \in Account :
        /\ req[r].kind = "login"
        /\ req[r].pc = "lookup_settled"
        /\ req[r].result.rows = CredentialLookup(a.email)
        /\ Cardinality(req[r].result.rows) = 1

\* An Account row has the phone of the body, and none has its username or
\* its email.
PhoneOnlyTaken(body) ==
    /\ \E a \in Account : a.phone = body.phone
    /\ \A a \in Account : a.username # body.username /\ a.email # body.email

\* C29: when storage settles the Account insert of a valid /register request
\* whose phone is the phone of an existing Account while its username and
\* email are fresh, it rejects the insert, not on the username or email
\* constraint, and no Account or Account_Credential row is created; and the
\* .catch of an insert rejected for such a reason answers the generic 500
\* 'server error - contact support', ending the request with no account id
\* and no further query.
C29_DuplicatePhoneAnswered500 ==
    [][/\ \A r \in Requests :
            (/\ req[r].kind = "register"
             /\ req[r].pc = "account_insert"
             /\ req'[r].pc = "account_insert_settled"
             /\ PhoneOnlyTaken(req[r].body))
            => /\ Account' = Account
               /\ Account_Credential' = Account_Credential
               /\ ~req'[r].result.ok
               /\ req'[r].result.constraint \in {"account_phone_key", ""}
       /\ \A r \in Requests :
            (/\ req[r].kind = "register"
             /\ req[r].pc = "account_insert_settled"
             /\ ~req[r].result.ok
             /\ req[r].result.constraint \in {"account_phone_key", ""}
             /\ req'[r] # req[r])
            => /\ req'[r].sent = <<Message(500, "server error - contact support")>>
               /\ req'[r].pc = "done"
               /\ req'[r].id = 0
               /\ req'[r].queries = {"INSERT INTO Account"}
               /\ Account' = Account
               /\ Account_Credential' = Account_Credential]_vars

\* A /register request rejected on the phone constraint has been answered
\* 500, and no Account row has its username or its email.
C29_DuplicatePhone ==
    \E r \in Requests :
        /\ req[r].kind = "register"
        /\ req[r].result.constraint = "account_phone_key"
        /\ PhoneOnlyTaken(req[r].body)
        /\ req[r].sent = <<Message(500, "server error - contact support")>>

\* C30: a PUT /ratings request with a valid ISBN in which a star count is not
\* a number is answered 400 'Invalid Ratings' and no send of it finds the
\* response already sent; its route handler does not run and issues no
\* UPDATE, so no BOOKS row is changed by it.
C30_InvalidRatingsStopsRequest ==
    \A r \in Requests :
        (/\ req[r].kind = "ratings"
         /\ mwValidISBN(req[r].params[1].isbn)
         /\ \E i \in 1..5 : Stars(req[r].params[1])[i] = NaN)
        => /\ req[r].sent = <<Message(400, "Invalid Ratings")>>
           /\ "ERR_HTTP_HEADERS_SENT" \notin req[r].errors
           /\ req[r].handled = 0
           /\ "UPDATE BOOKS" \notin req[r].queries

====
